---- MODULE Spec2Model ----
(***************************************************************************)
(* State-machine model of the news bot: the sent-message ledger and the    *)
(* preference store (database_handler.py), the per-user job scheduler      *)
(* (news_scheduler.py) and the delivery run with its command handlers      *)
(* (telegram_bot.py).                                                      *)
(*                                                                         *)
(* Strings whose content the code inspects (time strings, the comma-joined *)
(* category column, timezone names) are sequences of tokens; titles are    *)
(* opaque keys compared only for equality.  An optional value (a nullable  *)
(* column, a missing row) is a sequence of length 0 or 1.                  *)
(***************************************************************************)
EXTENDS Integers, Sequences, FiniteSets, TLC

\* ------------------------------------------------------------------ bounds
\* articles one source returns in one fetch
MaxPerSource == 1
\* the ghost count of sends of one title to one recipient saturates here
DeliveredCap == 2

\* ------------------------------------------------------- value universes
Users == {"u1", "u2"}
Titles == {"t1", "t2"}

None == <<>>
Some(x) == <<x>>

\* ------------------------------------------------------ token strings
\* str.split(sep) on a token string: the list of the pieces between separators
RECURSIVE Split(_, _)
Split(s, sep) ==
    IF \A i \in 1..Len(s) : s[i] # sep THEN <<s>>
    ELSE LET k == CHOOSE i \in 1..Len(s) :
                      /\ s[i] = sep
                      /\ \A j \in 1..(i - 1) : s[j] # sep
         IN <<SubSeq(s, 1, k - 1)>> \o Split(SubSeq(s, k + 1, Len(s)), sep)

\* a mutant: the pieces are joined with the separator and a blank
Join_blank(list, sep) ==
    LET RECURSIVE J(_)
        J(l) == IF l = <<>> THEN <<>>
                ELSE IF Len(l) = 1 THEN l[1]
                ELSE l[1] \o <<sep, " ">> \o J(Tail(l))
    IN J(list)

\* sep.join(list)
RECURSIVE Join(_, _)
Join(list, sep) ==
    IF list = <<>> THEN <<>>
    ELSE IF Len(list) = 1 THEN list[1]
    ELSE list[1] \o <<sep>> \o Join(Tail(list), sep)

\* NEWS_CATEGORIES.keys() / news_categories_dict.keys()
NEWS_CATEGORIES == << <<"technology">>, <<"science">>, <<"sports">>, <<"business">> >>

\* ---------------------------------------------------- user_preferences
\* the column defaults of CREATE TABLE user_preferences
DefaultRow ==
    [cats |-> <<"technology", ",", "science", ",", "sports", ",", "business">>,
     time |-> None, limit |-> 5, notif |-> TRUE, tz |-> <<"UTC">>]

\* the dictionary returned when there is no row, and on sqlite3.Error
DefaultPrefs ==
    [subscribed_categories |-> NEWS_CATEGORIES, preferred_time |-> None,
     daily_limit |-> 5, notifications |-> TRUE, timezone |-> <<"UTC">>]

get_user_preferences(p, user_id, err) ==
    IF err \/ p[user_id] = None THEN DefaultPrefs
    ELSE LET row == p[user_id][1] IN
         [subscribed_categories |-> IF row.cats # <<>> THEN Split(row.cats, ",") ELSE <<>>,
          preferred_time |-> row.time,
          daily_limit |-> row.limit,
          notifications |-> row.notif,
          timezone |-> IF row.tz # <<>> THEN row.tz ELSE <<"UTC">>]

Has(kw, f) == f \in DOMAIN kw

\* a mutant: the row inserted before the error is kept (no rollback)
update_user_preferences_norollback(p, user_id, kw, err) ==
    IF err THEN [ret |-> FALSE,
                 prefs |-> IF p[user_id] = None THEN [p EXCEPT ![user_id] = Some(DefaultRow)]
                           ELSE [p EXCEPT ![user_id] = Some([@[1] EXCEPT !.time = None])]]
    ELSE IF DOMAIN kw = {} THEN [ret |-> FALSE, prefs |-> p]
    ELSE LET old == IF p[user_id] = None THEN DefaultRow ELSE p[user_id][1]
             new == [cats  |-> IF Has(kw, "subscribed_categories")
                               THEN Join(kw["subscribed_categories"], ",") ELSE old.cats,
                     time  |-> IF Has(kw, "preferred_time") THEN kw["preferred_time"] ELSE old.time,
                     limit |-> IF Has(kw, "daily_limit") THEN kw["daily_limit"] ELSE old.limit,
                     notif |-> IF Has(kw, "notifications") THEN kw["notifications"] ELSE old.notif,
                     tz    |-> IF Has(kw, "timezone") THEN kw["timezone"] ELSE old.tz]
         IN [ret |-> TRUE, prefs |-> [p EXCEPT ![user_id] = Some(new)]]

\* UPDATE ... SET <supplied fields>; INSERT the default row first when no row
\* matched; on sqlite3.Error the connection rolls back and False is returned
update_user_preferences(p, user_id, kw, err) ==
    IF err THEN [ret |-> FALSE, prefs |-> p]
    ELSE IF DOMAIN kw = {} THEN [ret |-> FALSE, prefs |-> p]
    ELSE LET old == IF p[user_id] = None THEN DefaultRow ELSE p[user_id][1]
             new == [cats  |-> IF Has(kw, "subscribed_categories")
                               THEN Join(kw["subscribed_categories"], ",") ELSE old.cats,
                     time  |-> IF Has(kw, "preferred_time") THEN kw["preferred_time"] ELSE old.time,
                     limit |-> IF Has(kw, "daily_limit") THEN kw["daily_limit"] ELSE old.limit,
                     notif |-> IF Has(kw, "notifications") THEN kw["notifications"] ELSE old.notif,
                     tz    |-> IF Has(kw, "timezone") THEN kw["timezone"] ELSE old.tz]
         IN [ret |-> TRUE, prefs |-> [p EXCEPT ![user_id] = Some(new)]]

\* ---------------------------------------------------------------- users
\* a time stamp is "fresh" (written since time last passed) or "old"
\* INSERT OR REPLACE INTO users (user_id, username, first_name, last_name,
\* last_seen): an existing row is deleted and the new row takes the column
\* defaults for is_active and created_at
insert_or_replace_user(U, user_id, err) ==
    IF err THEN U
    ELSE [U EXCEPT ![user_id] =
             Some([is_active |-> TRUE, created_at |-> "fresh", last_seen |-> "fresh"])]

\* time passes: every time stamp now in the table is no longer fresh
AgeUsers(U) ==
    [u \in Users |-> IF U[u] = None THEN None
                     ELSE Some([U[u][1] EXCEPT !.created_at = "old", !.last_seen = "old"])]

\* INSERT OR IGNORE INTO user_preferences (user_id)
register_user(p, user_id, err) ==
    IF err \/ p[user_id] # None THEN p
    ELSE [p EXCEPT ![user_id] = Some(DefaultRow)]

\* ---------------------------------------------------------------- state
VARIABLES
    ledger,     \* sent_messages: [user][title] -> [fresh, old] row counts
    prefs,      \* user_preferences: [user] -> None or Some(row)
    jobs,       \* the scheduler's job store: a set of job records
    runs,       \* send_news_to_dm invocations: [slot] -> run record
    fire,       \* the scheduled firing in progress (or idle)
    delivered,  \* ghost: article sends per [user][title] since the last purge
    acked,      \* ghost: pairs <<user, title>> whose record returned True and whose row is not purged
    last,       \* ghost: the last completed ledger or scheduler operation and its result
    users       \* users: [user] -> None or Some(row)

vars == <<ledger, prefs, jobs, runs, fire, delivered, acked, last, users>>

\* ------------------------------------------------------ sent_messages
RowCount(l, user_id, title) == l[user_id][title].fresh + l[user_id][title].old

TotalRows(l, user_id) ==
    LET RECURSIVE Sum(_)
        Sum(S) == IF S = {} THEN 0
                  ELSE LET t == CHOOSE x \in S : TRUE
                       IN RowCount(l, user_id, t) + Sum(S \ {t})
    IN Sum(Titles)

\* a mutant: the lookup without the user_id condition (the global branch)
is_message_sent_global(l, title, user_id, err) ==
    IF err THEN FALSE
    ELSE \E u \in Users : RowCount(l, u, title) > 0

\* SELECT 1 FROM sent_messages WHERE title = ? AND user_id = ?; False on sqlite3.Error
is_message_sent(l, title, user_id, err) ==
    IF err THEN FALSE
    ELSE RowCount(l, user_id, title) > 0

\* a mutant: the inserted row carries no user_id and counts for every recipient
InsertRow_global(l, title, user_id) ==
    [u \in Users |-> [l[u] EXCEPT ![title].fresh = @ + 1]]

InsertRow(l, title, user_id) ==
    [l EXCEPT ![user_id][title].fresh = @ + 1]

\* a mutant: the insert without the preceding SELECT
record_sent_message_nocheck(l, title, user_id, err) ==
    IF err THEN [ret |-> FALSE, ledger |-> l]
    ELSE [ret |-> TRUE, ledger |-> InsertRow(l, title, user_id)]

\* check-then-insert in one connection; False (and rollback) on sqlite3.Error
record_sent_message(l, title, user_id, err) ==
    IF err THEN [ret |-> FALSE, ledger |-> l]
    ELSE IF RowCount(l, user_id, title) > 0 THEN [ret |-> FALSE, ledger |-> l]
    ELSE [ret |-> TRUE, ledger |-> InsertRow(l, title, user_id)]

\* DELETE ... WHERE sent_at < datetime('now', '-N days')
cleanup_old_messages(l) ==
    [u \in Users |-> [t \in Titles |-> [l[u][t] EXCEPT !.old = 0]]]

\* a mutant: the recipient's rows are deleted whatever their age
cleanup_old_user_messages_nohorizon(l, user_id) ==
    [l EXCEPT ![user_id] = [t \in Titles |-> [fresh |-> 0, old |-> 0]]]

\* DELETE ... WHERE user_id = ? AND sent_at < datetime('now', '-N days')
cleanup_old_user_messages(l, user_id) ==
    [l EXCEPT ![user_id] = [t \in Titles |-> [l[user_id][t] EXCEPT !.old = 0]]]

\* time passes: every row now in the table becomes older than the horizon
AgeRows(l) ==
    [u \in Users |-> [t \in Titles |->
        [fresh |-> 0, old |-> l[u][t].old + l[u][t].fresh]]]

StillAcked(l, A) == {p \in A : RowCount(l, p[1], p[2]) > 0}

NoOp == [op |-> "init"]

\* ------------------------------------------------- ledger operations
RecordSent(u, t, err) ==
    LET r == record_sent_message(ledger, t, u, err) IN
    /\ ledger' = r.ledger
    /\ acked' = IF r.ret THEN acked \cup {<<u, t>>} ELSE acked
    /\ last' = [op |-> "record_sent_message", user |-> u, title |-> t, err |-> err,
                ret |-> r.ret, was |-> (<<u, t>> \in acked),
                added |-> TotalRows(r.ledger, u) - TotalRows(ledger, u)]
    /\ UNCHANGED <<prefs, jobs, runs, fire, delivered, users>>

IsSent(u, t, err) ==
    /\ last' = [op |-> "is_message_sent", user |-> u, title |-> t, err |-> err,
                ret |-> is_message_sent(ledger, t, u, err), was |-> (<<u, t>> \in acked),
                added |-> 0]
    /\ UNCHANGED <<ledger, prefs, jobs, runs, fire, delivered, acked, users>>

Tick ==
    /\ \/ \E u \in Users, t \in Titles : ledger[u][t].fresh > 0
       \/ \E u \in Users : users[u] # None /\ users[u][1].last_seen = "fresh"
    /\ ledger' = AgeRows(ledger)
    /\ users' = AgeUsers(users)
    /\ last' = [op |-> "tick"]
    /\ UNCHANGED <<prefs, jobs, runs, fire, delivered, acked>>

CleanupAll ==
    /\ ledger' = cleanup_old_messages(ledger)
    /\ acked' = StillAcked(ledger', acked)
    /\ delivered' = [u \in Users |-> [t \in Titles |-> 0]]
    /\ last' = [op |-> "cleanup_old_messages",
                deleted_count |-> (TotalRows(ledger, "u1") + TotalRows(ledger, "u2"))
                                  - (TotalRows(ledger', "u1") + TotalRows(ledger', "u2"))]
    /\ UNCHANGED <<prefs, jobs, runs, fire, users>>

CleanupUser(u) ==
    /\ ledger' = cleanup_old_user_messages(ledger, u)
    /\ acked' = StillAcked(ledger', acked)
    /\ delivered' = [delivered EXCEPT ![u] = [t \in Titles |-> 0]]
    /\ last' = [op |-> "cleanup_old_user_messages", user |-> u,
                deleted_count |-> TotalRows(ledger, u) - TotalRows(ledger', u)]
    /\ UNCHANGED <<prefs, jobs, runs, fire, users>>

\* --------------------------------------------------------- delivery run
Slots == {"sched", "manual"}
IdleRun == [pc |-> "idle"]

\* news_sources.keys() of one category, in dictionary order
Sources == <<"s1", "s2">>

\* the articles of a newsdata.io response: title and link, either possibly
\* empty ("" also stands for a missing key: article.get returns None)
ArticleVals ==
    {[title |-> "t1", link |-> "l"], [title |-> "t2", link |-> "l"],
     [title |-> "", link |-> "l"], [title |-> "t1", link |-> ""]}

\* one source's response: the request or response.json() raises (ok = FALSE),
\* or a "results" list of articles; bad says that an element which is not a
\* dictionary follows the listed articles (article.get raises on it), here
\* after at most one article
Responses ==
    {[ok |-> FALSE, results |-> <<>>, bad |-> FALSE]} \cup
    {[ok |-> TRUE, results |-> r, bad |-> FALSE] :
        r \in UNION {[1..n -> ArticleVals] : n \in 0..MaxPerSource}} \cup
    {[ok |-> TRUE, results |-> r, bad |-> TRUE] :
        r \in UNION {[1..n -> ArticleVals] : n \in 0..1}}

Min(a, b) == IF a <= b THEN a ELSE b
Max(a, b) == IF a >= b THEN a ELSE b

\* the except branch of the fetch loop is taken for this source
SourceRaised(r) == ~r.ok \/ r.bad

\* article.get("link") and article.get("title")
Valid(a) == a.link # "" /\ a.title # ""

\* a mutant: only the title is tested
Contribution_titleonly(r) ==
    IF r.ok THEN SelectSeq(r.results, LAMBDA a : a.title # "") ELSE <<>>

\* what one source appends to articles: the listed articles that have a link
\* and a title (appended one by one, so they stay when a later element raises)
Contribution(r) ==
    IF r.ok THEN SelectSeq(r.results, Valid) ELSE <<>>

\* a mutant: the first source that raises ends the aggregation
FetchFrom_abort(resp, i) ==
    LET RECURSIVE F(_)
        F(k) == IF k > Len(Sources) THEN <<>>
                ELSE IF SourceRaised(resp[k]) THEN Contribution(resp[k])
                ELSE Contribution(resp[k]) \o F(k + 1)
    IN F(i)

\* the fetch loop over the sources (the source key only selects the extraction rules)
RECURSIVE FetchFrom(_, _)
FetchFrom(resp, i) ==
    IF i > Len(Sources) THEN <<>>
    ELSE Contribution(resp[i]) \o FetchFrom(resp, i + 1)

\* Python's seq[:m]
SliceTo(seq, m) ==
    IF m >= 0 THEN SubSeq(seq, 1, Min(m, Len(seq)))
    ELSE SubSeq(seq, 1, Max(Len(seq) + m, 0))

\* max_articles = min(daily_limit, len(new_articles)); new_articles[:max_articles]
TodoList(new, daily_limit) == SliceTo(new, Min(daily_limit, Len(new)))

\* a mutant: the exception leaves send_news_to_dm
OuterExcept_propagate(run) == [run EXCEPT !.pc = "done", !.ret = 0, !.raised = TRUE]

\* except Exception: log and return 0
OuterExcept(run) == [run EXCEPT !.pc = "done", !.ret = 0]

\* after an item: the next item, or the footer when something was sent, or the return
Advance(run) ==
    IF run.i <= Len(run.todo) THEN [run EXCEPT !.pc = "item"]
    ELSE IF run.sent > 0 THEN [run EXCEPT !.pc = "footer"]
    ELSE [run EXCEPT !.pc = "done", !.ret = run.sent]

\* ghost, kept until the header send returns: the articles is_message_sent
\* was asked about, whether a source that raised contributed a candidate,
\* whether a returned article was discarded
NoFetch == [asked |-> {}, listed |-> {}, anyraised |-> FALSE, leak |-> FALSE, dropped |-> FALSE]

\* listed: the articles with a link and a title in the lists of the sources
\* that answered, read off the responses
FetchTrace(resp, articles) ==
    [asked |-> {articles[k] : k \in 1..Len(articles)},
     listed |-> {a \in ArticleVals : Valid(a) /\ \E k \in 1..Len(Sources) :
                    resp[k].ok /\ \E j \in 1..Len(resp[k].results) : resp[k].results[j] = a},
     anyraised |-> \E k \in 1..Len(Sources) : SourceRaised(resp[k]),
     leak |-> \E k \in 1..Len(Sources) :
                 SourceRaised(resp[k]) /\ Contribution(resp[k]) # <<>>,
     dropped |-> \E k \in 1..Len(Sources) :
                 resp[k].ok /\ Len(Contribution(resp[k])) < Len(resp[k].results)]

\* send_news_to_dm up to its first await: preferences, fetch, filter
StartRun(l, p, user_id, resp, prefErr, lookErr) ==
    LET user_prefs == get_user_preferences(p, user_id, prefErr)
        articles == FetchFrom(resp, 1)
        new == SelectSeq(articles, LAMBDA a : ~is_message_sent(l, a.title, user_id, lookErr))
        run == [pc |-> "header", user |-> user_id, limit |-> user_prefs.daily_limit,
                new |-> new, todo |-> <<>>, i |-> 1, sent |-> 0, ret |-> 0,
                raised |-> FALSE,
                pre |-> {t \in Titles : RowCount(l, user_id, t) > 0},
                failed |-> {},
                \* ghosts: the trace of the fetch and filter phase; rows added;
                \* notices sent; notices whose send raised; send_message calls
                \* made for the last article
                fetch |-> FetchTrace(resp, articles),
                rows |-> 0, notices |-> {}, sendfail |-> {}, tries |-> 0]
    IN IF new = <<>> THEN [run EXCEPT !.pc = "done"] ELSE run

Bump(d, u, t) == [d EXCEPT ![u][t] = Min(@ + 1, DeliveredCap)]

\* a mutant: a skipped item ends the loop
Skip_abort(run, sendFailed) ==
    [run EXCEPT !.failed = IF sendFailed THEN @ \cup {run.todo[run.i].title} ELSE @,
                !.i = Len(run.todo) + 1]

\* the loop moves on; failed collects the titles whose send raised (ghost)
Skip(run, sendFailed) ==
    [run EXCEPT !.failed = IF sendFailed THEN @ \cup {run.todo[run.i].title} ELSE @,
                !.i = @ + 1]

\* the header send returned or raised
HeaderDone(s, ok) ==
    /\ runs[s].pc = "header"
    /\ LET run == runs[s] IN
       runs' = [runs EXCEPT ![s] =
          IF ok THEN Advance([run EXCEPT !.todo = TodoList(run.new, run.limit),
                                         !.notices = @ \cup {"header"},
                                         !.fetch = NoFetch])
          ELSE OuterExcept([run EXCEPT !.sendfail = @ \cup {"header"},
                                       !.fetch = NoFetch])]
    /\ UNCHANGED <<ledger, prefs, jobs, fire, delivered, acked, last, users>>

\* extract_content and summarize_text for the next article
ItemProc(s, out) ==
    /\ runs[s].pc = "item"
    /\ LET run == runs[s] IN
       runs' = [runs EXCEPT ![s] =
          IF out = "ok" THEN [run EXCEPT !.pc = "send"]
          ELSE Advance(Skip(run, FALSE))]
    /\ UNCHANGED <<ledger, prefs, jobs, fire, delivered, acked, last, users>>

\* a mutant: after a send the row is inserted without the preceding SELECT
SendDone_nocheck(s, ok, recErr) ==
    /\ runs[s].pc = "send"
    /\ LET run == runs[s]
           u == run.user
           t == run.todo[run.i].title
       IN IF ok
          THEN /\ delivered' = Bump(delivered, u, t)
               /\ ledger' = IF recErr THEN ledger ELSE InsertRow(ledger, t, u)
               /\ acked' = IF recErr THEN acked ELSE acked \cup {<<u, t>>}
               /\ runs' = [runs EXCEPT ![s] =
                              Advance([Skip(run, FALSE) EXCEPT
                                          !.sent = @ + 1, !.tries = 1,
                                          !.rows = IF recErr THEN @ ELSE @ + 1])]
          ELSE /\ runs' = [runs EXCEPT ![s] =
                              Advance([Skip(run, TRUE) EXCEPT !.tries = 1])]
               /\ UNCHANGED <<ledger, delivered, acked>>
    /\ UNCHANGED <<prefs, jobs, fire, last, users>>

\* the article send returned or raised; on return the title is recorded
SendDone(s, ok, recErr) ==
    /\ runs[s].pc = "send"
    /\ LET run == runs[s]
           u == run.user
           t == run.todo[run.i].title
           r == record_sent_message(ledger, t, u, recErr)
       IN IF ok
          THEN /\ delivered' = Bump(delivered, u, t)
               /\ ledger' = r.ledger
               /\ acked' = IF r.ret THEN acked \cup {<<u, t>>} ELSE acked
               /\ runs' = [runs EXCEPT ![s] =
                              Advance([Skip(run, FALSE) EXCEPT
                                          !.sent = @ + 1, !.tries = 1,
                                          !.rows = IF r.ret THEN @ + 1 ELSE @])]
          ELSE /\ runs' = [runs EXCEPT ![s] =
                              Advance([Skip(run, TRUE) EXCEPT !.tries = 1])]
               /\ UNCHANGED <<ledger, delivered, acked>>
    /\ UNCHANGED <<prefs, jobs, fire, last, users>>

\* the footer send returned or raised
FooterDone(s, ok) ==
    /\ runs[s].pc = "footer"
    /\ LET run == runs[s] IN
       runs' = [runs EXCEPT ![s] =
          IF ok THEN [run EXCEPT !.pc = "done", !.ret = run.sent,
                                 !.notices = @ \cup {"footer"}]
          ELSE OuterExcept([run EXCEPT !.sendfail = @ \cup {"footer"}])]
    /\ UNCHANGED <<ledger, prefs, jobs, fire, delivered, acked, last, users>>

\* a mutant: an on-demand request waits while a run for the same recipient is in flight
BeginManual_serialized(u, resp, prefErr, lookErr) ==
    /\ runs["manual"].pc = "idle"
    /\ \A s \in Slots : IF runs[s].pc = "idle" THEN TRUE ELSE runs[s].user # u
    /\ runs' = [runs EXCEPT !["manual"] = StartRun(ledger, prefs, u, resp, prefErr, lookErr)]
    /\ UNCHANGED <<ledger, prefs, jobs, fire, delivered, acked, last, users>>

\* an on-demand request: fetch_news_for_category, the news_<category> buttons
BeginManual(u, resp, prefErr, lookErr) ==
    /\ runs["manual"].pc = "idle"
    /\ runs' = [runs EXCEPT !["manual"] = StartRun(ledger, prefs, u, resp, prefErr, lookErr)]
    /\ UNCHANGED <<ledger, prefs, jobs, fire, delivered, acked, last, users>>

\* the on-demand caller receives the count
ReturnManual ==
    /\ runs["manual"].pc = "done"
    /\ runs' = [runs EXCEPT !["manual"] = IdleRun]
    /\ UNCHANGED <<ledger, prefs, jobs, fire, delivered, acked, last, users>>

\* ----------------------------------------------------- limit commands
\* the values a "/settings limit N" argument or a set_limit_N callback carries
LimitInputs == {-1, 1}

\* /settings limit N: stored only when 1 <= N <= 20
SettingsLimit(u, n, err) ==
    /\ prefs' = IF 1 <= n /\ n <= 20
                THEN update_user_preferences(register_user(prefs, u, err), u,
                                             [f \in {"daily_limit"} |-> n], err).prefs
                ELSE register_user(prefs, u, err)
    /\ users' = insert_or_replace_user(users, u, err)
    /\ UNCHANGED <<ledger, jobs, runs, fire, delivered, acked, last>>

\* callback set_limit_N: int(N) is stored as it is
ButtonSetLimit(u, n, err) ==
    /\ prefs' = update_user_preferences(prefs, u, [f \in {"daily_limit"} |-> n], err).prefs
    /\ UNCHANGED <<ledger, jobs, runs, fire, delivered, acked, last, users>>

\* ------------------------------------------------------------ scheduler
Digits == <<"0", "1", "2", "3", "4", "5", "6", "7", "8", "9">>
IsDigit(c) == \E d \in 1..Len(Digits) : Digits[d] = c
DigitVal(c) == (CHOOSE d \in 1..Len(Digits) : Digits[d] = c) - 1

\* int(s) succeeds on a non-empty run of digits
IsInt(s) == Len(s) > 0 /\ \A i \in 1..Len(s) : IsDigit(s[i])

RECURSIVE IntVal(_)
IntVal(s) == IF s = <<>> THEN 0 ELSE 10 * IntVal(SubSeq(s, 1, Len(s) - 1)) + DigitVal(s[Len(s)])

\* hour, minute = map(int, preferred_time.split(":")); ok = FALSE is the ValueError
ParseTime(s) ==
    LET parts == Split(s, ":") IN
    IF Len(parts) = 2 /\ IsInt(parts[1]) /\ IsInt(parts[2])
    THEN [ok |-> TRUE, hour |-> IntVal(parts[1]), minute |-> IntVal(parts[2])]
    ELSE [ok |-> FALSE, hour |-> 0, minute |-> 0]

\* a mutant: the trigger takes any hour and minute
CronOK_any(hour, minute) == TRUE

\* CronTrigger accepts hour 0..23 and minute 0..59 and raises ValueError otherwise
CronOK(hour, minute) == 0 <= hour /\ hour <= 23 /\ 0 <= minute /\ minute <= 59

UTC == <<"UTC">>
London == <<"Europe/London">>
\* the names pytz.timezone accepts
ValidTZ == {UTC, London}

\* a mutant: the name is used as it is stored
ValidateTimezone_keep(timezone) == timezone

\* pytz.timezone(timezone) raises for an unknown name: timezone = "UTC"
ValidateTimezone(timezone) == IF timezone \in ValidTZ THEN timezone ELSE UTC

\* Python truthiness of an optional string
Truthy(opt) == opt # None /\ opt[1] # <<>>

get_job(J, user_id) == \E j \in J : j.user = user_id
remove_job(J, user_id) == {j \in J : j.user # user_id}
\* add_job raises ConflictingIdError when the id is in the store
add_job(J, job) == IF get_job(J, job.user) THEN J ELSE J \cup {job}

\* a mutant: the trigger is built in UTC whatever the user's timezone
schedule_user_news_utc(J, user_id, preferred_time, timezone, categories) ==
    LET pt == ParseTime(preferred_time) IN
    IF ~pt.ok THEN J
    ELSE LET J1 == remove_job(J, user_id) IN
         IF ~CronOK(pt.hour, pt.minute) THEN J1
         ELSE add_job(J1, [user |-> user_id, hour |-> pt.hour, minute |-> pt.minute,
                           tz |-> UTC, cats |-> categories])

\* parse the time, remove the user's job, fall back to UTC, add the new job;
\* any exception is logged and leaves the store as it is at that point
schedule_user_news(J, user_id, preferred_time, timezone, categories) ==
    LET pt == ParseTime(preferred_time) IN
    IF ~pt.ok THEN J
    ELSE LET J1 == remove_job(J, user_id)
             tz == ValidateTimezone(timezone)
         IN IF ~CronOK(pt.hour, pt.minute) THEN J1
            ELSE add_job(J1, [user |-> user_id, hour |-> pt.hour, minute |-> pt.minute,
                              tz |-> tz, cats |-> categories])

\* a mutant: the old job is removed only when a new one is to be armed
update_user_schedule_keep(J, p, user_id, err) ==
    LET user_prefs == get_user_preferences(p, user_id, err) IN
    IF user_prefs.notifications /\ Truthy(user_prefs.preferred_time)
    THEN schedule_user_news(remove_job(J, user_id), user_id, user_prefs.preferred_time[1],
                            user_prefs.timezone,
                            IF user_prefs.subscribed_categories = <<>> THEN NEWS_CATEGORIES
                            ELSE user_prefs.subscribed_categories)
    ELSE J

\* read the preferences, remove the job, arm a new one when notifications
\* are enabled and a preferred time is set
update_user_schedule(J, p, user_id, err) ==
    LET user_prefs == get_user_preferences(p, user_id, err)
        J1 == remove_job(J, user_id)
    IN IF user_prefs.notifications /\ Truthy(user_prefs.preferred_time)
       THEN schedule_user_news(J1, user_id, user_prefs.preferred_time[1],
                               user_prefs.timezone,
                               IF user_prefs.subscribed_categories = <<>> THEN NEWS_CATEGORIES
                               ELSE user_prefs.subscribed_categories)
       ELSE J1

\* a mutant: the job is removed and True is returned whether it existed or not
remove_user_schedule_true(J, user_id) ==
    [ret |-> TRUE, jobs |-> remove_job(J, user_id)]

remove_user_schedule(J, user_id) ==
    IF get_job(J, user_id) THEN [ret |-> TRUE, jobs |-> remove_job(J, user_id)]
    ELSE [ret |-> FALSE, jobs |-> J]

\* the user ids of the jobs named daily_news_<id>
get_scheduled_users(J) == {j.user : j \in J}

\* _parse_categories on the stored column (the column never holds a JSON list)
parse_categories(str) ==
    IF \E i \in 1..Len(str) : str[i] = "," THEN Split(str, ",") ELSE <<str>>

\* a mutant: the first recipient whose scheduling fails ends the loop
RECURSIVE load_user_schedules_abort(_, _, _)
load_user_schedules_abort(J, p, todo) ==
    IF todo = {} THEN J
    ELSE LET u == CHOOSE x \in todo : TRUE
             row == p[u][1]
             wanted == p[u] # None /\ row.time # None /\ row.notif
                       /\ row.time[1] # <<>> /\ row.tz # <<>>
             J1 == IF wanted
                   THEN schedule_user_news(J, u, row.time[1], row.tz, parse_categories(row.cats))
                   ELSE J
         IN IF wanted /\ ~get_job(J1, u) THEN J1
            ELSE load_user_schedules_abort(J1, p, todo \ {u})

\* load_user_schedules: the rows with a preferred time and notifications = 1
RECURSIVE load_user_schedules(_, _, _)
load_user_schedules(J, p, todo) ==
    IF todo = {} THEN J
    ELSE LET u == CHOOSE x \in todo : TRUE
             row == p[u][1]
             J1 == IF p[u] # None /\ row.time # None /\ row.notif
                      /\ row.time[1] # <<>> /\ row.tz # <<>>
                   THEN schedule_user_news(J, u, row.time[1], row.tz, parse_categories(row.cats))
                   ELSE J
         IN load_user_schedules(J1, p, todo \ {u})

\* the time strings a command can carry
T0800 == <<"0", "8", ":", "0", "0">>
T1200 == <<"1", "2", ":", "0", "0">>
T2500 == <<"2", "5", ":", "0", "0">>
TBad == <<"b", "a", "d">>
TimeInputs == {T0800, T1200, T2500, TBad}
TzInputs == {UTC, London, <<"Mars/Phobos">>}

\* the resync a button handler ends with; last records it
Resync(u, p, werr, err) ==
    /\ jobs' = update_user_schedule(jobs, p, u, err)
    /\ last' = [op |-> "update_user_schedule", user |-> u, err |-> err, werr |-> werr,
                had |-> get_job(jobs, u)]

\* callback set_time_<HH:MM>: store the string, resync
ButtonSetTime(u, t, werr, err) ==
    /\ prefs' = update_user_preferences(prefs, u, [f \in {"preferred_time"} |-> Some(t)], werr).prefs
    /\ Resync(u, prefs', werr, err)
    /\ UNCHANGED <<ledger, runs, fire, delivered, acked, users>>

\* callback clear_time: store NULL, resync
ButtonClearTime(u, werr, err) ==
    /\ prefs' = update_user_preferences(prefs, u, [f \in {"preferred_time"} |-> None], werr).prefs
    /\ Resync(u, prefs', werr, err)
    /\ UNCHANGED <<ledger, runs, fire, delivered, acked, users>>

\* list.remove(x): the list without the first occurrence of x
RECURSIVE Remove(_, _)
Remove(l, x) ==
    IF l = <<>> THEN <<>>
    ELSE IF Head(l) = x THEN Tail(l)
    ELSE <<Head(l)>> \o Remove(Tail(l), x)

\* callback toggle_cat_<category>: read the list, remove or append the
\* category, store the list, resync
ButtonToggleCat(u, category, rerr, werr, err) ==
    /\ LET current_cats == get_user_preferences(prefs, u, rerr).subscribed_categories
           toggled == IF \E k \in 1..Len(current_cats) : current_cats[k] = category
                      THEN Remove(current_cats, category)
                      ELSE Append(current_cats, category)
       IN prefs' = update_user_preferences(prefs, u,
                       [f \in {"subscribed_categories"} |-> toggled], werr).prefs
    /\ Resync(u, prefs', werr, err)
    /\ UNCHANGED <<ledger, runs, fire, delivered, acked, users>>

\* callback unsub_all_cats: store the empty list, resync
ButtonUnsubAll(u, werr, err) ==
    /\ prefs' = update_user_preferences(prefs, u,
                     [f \in {"subscribed_categories"} |-> <<>>], werr).prefs
    /\ Resync(u, prefs', werr, err)
    /\ UNCHANGED <<ledger, runs, fire, delivered, acked, users>>

\* callbacks enable_notifications / disable_notifications: store the flag, resync
ButtonNotifications(u, on, werr, err) ==
    /\ prefs' = update_user_preferences(prefs, u, [f \in {"notifications"} |-> on], werr).prefs
    /\ Resync(u, prefs', werr, err)
    /\ UNCHANGED <<ledger, runs, fire, delivered, acked, users>>

\* callback set_tz_<name>: a name pytz rejects is answered "Invalid timezone"
ButtonSetTz(u, tz, werr, err) ==
    /\ IF tz \in ValidTZ
       THEN /\ prefs' = update_user_preferences(prefs, u, [f \in {"timezone"} |-> tz], werr).prefs
            /\ Resync(u, prefs', werr, err)
       ELSE UNCHANGED <<prefs, jobs, last>>
    /\ UNCHANGED <<ledger, runs, fire, delivered, acked, users>>

\* /settings time HH:MM: register, validate, store; the scheduler is not called
SettingsTime(u, t, werr) ==
    /\ LET pt == ParseTime(t)
           p1 == register_user(prefs, u, werr)
       IN prefs' = IF pt.ok /\ CronOK(pt.hour, pt.minute)
                   THEN update_user_preferences(p1, u, [f \in {"preferred_time"} |-> Some(t)], werr).prefs
                   ELSE p1
    /\ users' = insert_or_replace_user(users, u, werr)
    /\ last' = [op |-> "settings_command", user |-> u, err |-> werr]
    /\ UNCHANGED <<ledger, jobs, runs, fire, delivered, acked>>

\* /settings notifications on|off: register, store; the scheduler is not called
SettingsNotifications(u, on, werr) ==
    /\ prefs' = update_user_preferences(register_user(prefs, u, werr), u,
                                        [f \in {"notifications"} |-> on], werr).prefs
    /\ users' = insert_or_replace_user(users, u, werr)
    /\ last' = [op |-> "settings_command", user |-> u, err |-> werr]
    /\ UNCHANGED <<ledger, jobs, runs, fire, delivered, acked>>

UpdateUserSchedule(u, err) ==
    /\ Resync(u, prefs, FALSE, err)
    /\ UNCHANGED <<ledger, prefs, runs, fire, delivered, acked, users>>

\* a mutant: removing the job also cancels the delivery in flight
RemoveUserSchedule_cancel(u) ==
    /\ jobs' = remove_user_schedule(jobs, u).jobs
    /\ last' = [op |-> "remove_user_schedule", user |-> u,
                ret |-> remove_user_schedule(jobs, u).ret]
    /\ fire' = [pc |-> "idle"]
    /\ runs' = [runs EXCEPT !["sched"] = IdleRun]
    /\ UNCHANGED <<ledger, prefs, delivered, acked, users>>

RemoveUserSchedule(u) ==
    /\ jobs' = remove_user_schedule(jobs, u).jobs
    /\ last' = [op |-> "remove_user_schedule", user |-> u,
                ret |-> remove_user_schedule(jobs, u).ret]
    /\ UNCHANGED <<ledger, prefs, runs, fire, delivered, acked, users>>

\* the process restarts: a new scheduler is filled from the stored rows
\* (err: the SELECT of load_user_schedules raises; logged, nothing is scheduled)
Restart(err) ==
    /\ jobs' = IF err THEN {} ELSE load_user_schedules({}, prefs, Users)
    /\ runs' = [s \in Slots |-> IdleRun]
    /\ fire' = [pc |-> "idle"]
    /\ last' = [op |-> "start", err |-> err]
    /\ UNCHANGED <<ledger, prefs, delivered, acked, users>>

\* ------------------------------------------- preference store operations
\* the keyword arguments of the update_user_preferences calls considered
KwInputs ==
    {[f \in {"notifications"} |-> FALSE],
     [f \in {"preferred_time"} |-> Some(T0800)],
     [f \in {"daily_limit"} |-> 3],
     [f \in {"timezone"} |-> London],
     [f \in {"subscribed_categories"} |-> << <<"science">> >>],
     [f \in {"subscribed_categories"} |-> << <<"science">>, <<"sports">> >>],
     [f \in {"subscribed_categories"} |-> <<>>],
     [f \in {"preferred_time"} |-> None]}

\* the updates considered when two recipients' rows are followed together
KwFrame ==
    {kw \in KwInputs : DOMAIN kw \subseteq {"notifications", "subscribed_categories"}}
        \cup {[f \in {"preferred_time"} |-> Some(T0800)]}

GetPrefs(u, err) ==
    /\ last' = [op |-> "get_user_preferences", user |-> u, err |-> err,
                ret |-> get_user_preferences(prefs, u, err)]
    /\ UNCHANGED <<ledger, prefs, jobs, runs, fire, delivered, acked, users>>

UpdatePrefs(u, kw, err) ==
    LET r == update_user_preferences(prefs, u, kw, err) IN
    /\ prefs' = r.prefs
    /\ last' = [op |-> "update_user_preferences", user |-> u, err |-> err,
                ret |-> r.ret, same |-> (r.prefs = prefs)]
    /\ UNCHANGED <<ledger, jobs, runs, fire, delivered, acked, users>>

RegisterUser(u, err) ==
    /\ users' = insert_or_replace_user(users, u, err)
    /\ prefs' = register_user(prefs, u, err)
    /\ last' = [op |-> "register_user", user |-> u, err |-> err,
                before |-> users[u], samep |-> (prefs' = prefs)]
    /\ UNCHANGED <<ledger, jobs, runs, fire, delivered, acked>>

\* ------------------------------------------------------ scheduled firing
IdleFire == [pc |-> "idle"]

\* a mutant: every captured category counts as configured
Configured_any(cat) == TRUE

\* the categories with a source configuration (news_categories_dict)
Configured(cat) == \E k \in 1..Len(NEWS_CATEGORIES) : NEWS_CATEGORIES[k] = cat

\* user_prefs.get("notifications", False)
NotificationsOn(user_prefs) == user_prefs.notifications

\* the job of user u fires: re-read the notification flag, then start the loop
\* over the categories captured in the job (disabled is a ghost: what the
\* stored row said at that moment)
Fire(u, err) ==
    /\ fire.pc = "idle"
    /\ runs["sched"].pc = "idle"
    /\ get_job(jobs, u)
    /\ LET job == CHOOSE j \in jobs : j.user = u
           user_prefs == get_user_preferences(prefs, u, err)
       IN fire' = IF NotificationsOn(user_prefs)
                  THEN [pc |-> "loop", user |-> u, cats |-> job.cats, i |-> 1, total |-> 0,
                        disabled |-> (prefs[u] # None /\ ~prefs[u][1].notif),
                        ran |-> <<>>, erred |-> FALSE]
                  ELSE IdleFire
    /\ last' = [op |-> "fire", user |-> u, err |-> err]
    /\ UNCHANGED <<ledger, prefs, jobs, runs, delivered, acked, users>>

\* ------------------------------------------------------ late occurrences
\* add_job(..., misfire_grace_time=3600), in seconds
misfire_grace_time == 3600

\* how long after the nominal instant the scheduler gets to the occurrence
Delays == {0, 600, misfire_grace_time, misfire_grace_time + 1}

\* the scheduler, when it processes its due jobs, drops a run time that lies
\* more than misfire_grace_time seconds in the past
Misfired(delay) == delay > misfire_grace_time

\* the first run time a CronTrigger gives a job added delay seconds after
\* today's nominal instant: the first matching instant not before now
FirstRunTime(delay) == IF delay = 0 THEN "today" ELSE "tomorrow"

\* the scheduler was busy or suspended at the nominal instant of u's job and
\* processes its due jobs delay seconds later
ProcessDue(u, delay, err) ==
    /\ fire.pc = "idle"
    /\ runs["sched"].pc = "idle"
    /\ get_job(jobs, u)
    /\ LET job == CHOOSE j \in jobs : j.user = u
           user_prefs == get_user_preferences(prefs, u, err)
       IN fire' = IF Misfired(delay) THEN IdleFire
                  ELSE IF NotificationsOn(user_prefs)
                  THEN [pc |-> "loop", user |-> u, cats |-> job.cats, i |-> 1, total |-> 0,
                        disabled |-> (prefs[u] # None /\ ~prefs[u][1].notif),
                        ran |-> <<>>, erred |-> FALSE]
                  ELSE IdleFire
    /\ last' = [op |-> "process_jobs", user |-> u, err |-> err, delay |-> delay,
                called |-> ~Misfired(delay)]
    /\ UNCHANGED <<ledger, prefs, jobs, runs, delivered, acked, users>>

\* the process was down at the nominal instant of u's job and starts delay
\* seconds later: a new scheduler with an empty job store is filled from the
\* stored rows, and each job gets its first run time from its trigger
StartLate(u, delay) ==
    /\ get_job(load_user_schedules({}, prefs, Users), u)
    /\ jobs' = load_user_schedules({}, prefs, Users)
    /\ runs' = [s \in Slots |-> IdleRun]
    /\ fire' = IdleFire
    /\ last' = [op |-> "start", user |-> u, err |-> FALSE, delay |-> delay,
                called |-> (FirstRunTime(delay) = "today")]
    /\ UNCHANGED <<ledger, prefs, delivered, acked, users>>

\* a mutant: the summary is sent whatever the total is
FireNext_summary(resp, prefErr, lookErr) ==
    /\ fire.pc = "loop"
    /\ IF fire.i > Len(fire.cats)
       THEN /\ fire' = [fire EXCEPT !.pc = "summary"]
            /\ UNCHANGED runs
       ELSE IF \E k \in 1..Len(NEWS_CATEGORIES) : NEWS_CATEGORIES[k] = fire.cats[fire.i]
       THEN /\ runs' = [runs EXCEPT !["sched"] =
                           StartRun(ledger, prefs, fire.user, resp, prefErr, lookErr)]
            /\ fire' = [fire EXCEPT !.pc = "wait", !.ran = Append(@, fire.cats[fire.i])]
       ELSE /\ fire' = [fire EXCEPT !.i = @ + 1]
            /\ UNCHANGED runs
    /\ UNCHANGED <<ledger, prefs, jobs, delivered, acked, last, users>>

\* the loop body up to the await of send_news_to_dm, or, after the loop, the
\* call of _send_summary_message when something was sent (ran is a ghost: the
\* categories send_news_to_dm was called for)
FireNext(resp, prefErr, lookErr) ==
    /\ fire.pc = "loop"
    /\ IF fire.i > Len(fire.cats)
       THEN /\ fire' = IF fire.total > 0 THEN [fire EXCEPT !.pc = "summary"] ELSE IdleFire
            /\ UNCHANGED runs
       ELSE IF Configured(fire.cats[fire.i])
       THEN /\ runs' = [runs EXCEPT !["sched"] =
                           StartRun(ledger, prefs, fire.user, resp, prefErr, lookErr)]
            /\ fire' = [fire EXCEPT !.pc = "wait", !.ran = Append(@, fire.cats[fire.i])]
       ELSE /\ fire' = [fire EXCEPT !.i = @ + 1]
            /\ UNCHANGED runs
    /\ UNCHANGED <<ledger, prefs, jobs, delivered, acked, last, users>>

\* a mutant: a delivery that ended in an exception ends the firing
FireAwait_abort ==
    /\ fire.pc = "wait"
    /\ runs["sched"].pc = "done"
    /\ fire' = IF runs["sched"].sendfail # {} THEN [pc |-> "idle"]
               ELSE [fire EXCEPT !.pc = "loop", !.i = @ + 1,
                                 !.total = IF runs["sched"].ret > 0 THEN @ + runs["sched"].ret ELSE @]
    /\ runs' = [runs EXCEPT !["sched"] = IdleRun]
    /\ UNCHANGED <<ledger, prefs, jobs, delivered, acked, last, users>>

\* send_news_to_dm returned or raised (caught and logged): add the count,
\* pause, go on with the next category (erred is a ghost: a delivery of this
\* firing ended in an exception)
FireAwait ==
    /\ fire.pc = "wait"
    /\ runs["sched"].pc = "done"
    /\ fire' = [fire EXCEPT !.pc = "loop", !.i = @ + 1,
                            !.total = IF runs["sched"].ret > 0 THEN @ + runs["sched"].ret ELSE @,
                            !.erred = @ \/ runs["sched"].sendfail # {} \/ runs["sched"].raised]
    /\ runs' = [runs EXCEPT !["sched"] = IdleRun]
    /\ UNCHANGED <<ledger, prefs, jobs, delivered, acked, last, users>>

\* _send_summary_message: the send returned or raised (caught and logged)
SummaryDone(ok) ==
    /\ fire.pc = "summary"
    /\ fire' = IdleFire
    /\ UNCHANGED <<ledger, prefs, jobs, runs, delivered, acked, last, users>>

\* ---------------------------------------------------------------- init
EmptyLedger == [u \in Users |-> [t \in Titles |-> [fresh |-> 0, old |-> 0]]]

Init ==
    /\ ledger = EmptyLedger
    /\ prefs = [u \in Users |-> None]
    /\ jobs = {}
    /\ runs = [s \in Slots |-> IdleRun]
    /\ fire = IdleFire
    /\ delivered = [u \in Users |-> [t \in Titles |-> 0]]
    /\ acked = {}
    /\ last = NoOp
    /\ users = [u \in Users |-> None]

\* ------------------------------------------------ the ledger on its own
NextLedger ==
    \/ \E u \in Users, t \in Titles, err \in BOOLEAN : RecordSent(u, t, err)
    \/ \E u \in Users, t \in Titles, err \in BOOLEAN : IsSent(u, t, err)
    \/ Tick
    \/ CleanupAll
    \/ \E u \in Users : CleanupUser(u)

SpecLedger == Init /\ [][NextLedger]_vars

\* ------------------------------------- delivery runs, one after the other
RunUsers == {"u1"}

NextRun ==
    \/ \E u \in RunUsers, resp \in [1..Len(Sources) -> Responses], pe \in BOOLEAN, le \in BOOLEAN :
          BeginManual(u, resp, pe, le)
    \/ \E ok \in BOOLEAN : HeaderDone("manual", ok)
    \/ \E out \in {"ok", "nocontent", "procraise"} : ItemProc("manual", out)
    \/ \E ok \in BOOLEAN, re \in BOOLEAN : SendDone("manual", ok, re)
    \/ \E ok \in BOOLEAN : FooterDone("manual", ok)
    \/ ReturnManual
    \/ \E u \in RunUsers, n \in LimitInputs, err \in BOOLEAN : ButtonSetLimit(u, n, err)

SpecRun == Init /\ [][NextRun]_vars

\* --------------------------------------- preferences and the scheduler
NextSched ==
    \/ \E u \in Users, t \in TimeInputs, we \in BOOLEAN, e \in BOOLEAN : ButtonSetTime(u, t, we, e)
    \/ \E u \in Users, we \in BOOLEAN, e \in BOOLEAN : ButtonClearTime(u, we, e)
    \/ \E u \in Users, on \in BOOLEAN, we \in BOOLEAN, e \in BOOLEAN : ButtonNotifications(u, on, we, e)
    \/ \E u \in Users, tz \in TzInputs, we \in BOOLEAN, e \in BOOLEAN : ButtonSetTz(u, tz, we, e)
    \/ \E u \in Users, t \in TimeInputs, we \in BOOLEAN : SettingsTime(u, t, we)
    \/ \E u \in Users, on \in BOOLEAN, we \in BOOLEAN : SettingsNotifications(u, on, we)
    \/ \E u \in Users, e \in BOOLEAN : UpdateUserSchedule(u, e)
    \/ \E u \in Users : RemoveUserSchedule(u)
    \/ \E e \in BOOLEAN : Restart(e)

SpecSched == Init /\ [][NextSched]_vars

\* ---------------------------------------------- firings of the armed jobs
\* what the news API answers during a firing: nothing, or one article from the first source
RespFire ==
    {[k \in 1..Len(Sources) |-> [ok |-> FALSE, results |-> <<>>, bad |-> FALSE]],
     [k \in 1..Len(Sources) |->
         IF k = 1 THEN [ok |-> TRUE, results |-> <<[title |-> "t1", link |-> "l"]>>, bad |-> FALSE]
         ELSE [ok |-> FALSE, results |-> <<>>, bad |-> FALSE]]}

NextFire ==
    \/ \E u \in RunUsers, we \in BOOLEAN, e \in BOOLEAN : ButtonSetTime(u, T0800, we, e)
    \/ \E u \in RunUsers, on \in BOOLEAN, we \in BOOLEAN, e \in BOOLEAN : ButtonNotifications(u, on, we, e)
    \/ \E u \in RunUsers, on \in BOOLEAN, we \in BOOLEAN : SettingsNotifications(u, on, we)
    \/ \E u \in RunUsers, e \in BOOLEAN : Fire(u, e)
    \/ \E resp \in RespFire, pe \in BOOLEAN, le \in BOOLEAN : FireNext(resp, pe, le)
    \/ FireAwait
    \/ \E ok \in BOOLEAN : SummaryDone(ok)
    \/ \E ok \in BOOLEAN : HeaderDone("sched", ok)
    \/ \E out \in {"ok", "nocontent", "procraise"} : ItemProc("sched", out)
    \/ \E ok \in BOOLEAN, re \in BOOLEAN : SendDone("sched", ok, re)
    \/ \E ok \in BOOLEAN : FooterDone("sched", ok)

SpecFire == Init /\ [][NextFire]_vars

\* -------------------- a scheduled firing and an on-demand request overlap
\* what the news API answers to either run: one article from each source, or
\* one article from the first source only
RespOverlap ==
    {[k \in 1..Len(Sources) |->
         IF k = 1 THEN [ok |-> TRUE, results |-> <<[title |-> "t1", link |-> "l"]>>, bad |-> FALSE]
         ELSE [ok |-> TRUE, results |-> <<[title |-> "t2", link |-> "l"]>>, bad |-> FALSE]],
     [k \in 1..Len(Sources) |->
         IF k = 1 THEN [ok |-> TRUE, results |-> <<[title |-> "t1", link |-> "l"]>>, bad |-> FALSE]
         ELSE [ok |-> FALSE, results |-> <<>>, bad |-> FALSE]]}

\* u1 makes the settings once, in this order, before the first firing: one
\* subscribed category, a limit of 1, a preferred time; u2 keeps the defaults
Setup ==
    \/ prefs["u1"] = None
        /\ UpdatePrefs("u1", [f \in {"subscribed_categories"} |-> << <<"science">> >>], FALSE)
    \/ prefs["u1"] # None /\ prefs["u1"][1].limit # 1 /\ ButtonSetLimit("u1", 1, FALSE)
    \/ prefs["u1"] # None /\ prefs["u1"][1].limit = 1 /\ jobs = {}
        /\ ButtonSetTime("u1", T0800, FALSE, FALSE)

\* the firings of u1's job and the steps of the runs in both slots
Firings ==
    \/ Fire("u1", FALSE)
    \/ \E resp \in RespOverlap, le \in BOOLEAN : FireNext(resp, FALSE, le)
    \/ FireAwait
    \/ \E ok \in BOOLEAN : SummaryDone(ok)
    \/ ReturnManual
    \/ \E s \in Slots, ok \in BOOLEAN : HeaderDone(s, ok)
    \/ \E s \in Slots, out \in {"ok", "nocontent", "procraise"} : ItemProc(s, out)
    \/ \E s \in Slots, ok \in BOOLEAN, re \in BOOLEAN : SendDone(s, ok, re)
    \/ \E s \in Slots, ok \in BOOLEAN : FooterDone(s, ok)

\* u1 asks for news while u1's job fires
NextOverlap ==
    \/ Setup
    \/ Firings
    \/ \E resp \in RespOverlap, le \in BOOLEAN : BeginManual("u1", resp, FALSE, le)

SpecOverlap == Init /\ [][NextOverlap]_vars

\* u2 asks for news while u1's job fires
NextPair ==
    \/ Setup
    \/ Firings
    \/ \E resp \in RespOverlap, le \in BOOLEAN : BeginManual("u2", resp, FALSE, le)

SpecPair == Init /\ [][NextPair]_vars

\* ------------------------------ occurrences the scheduler gets to late
NextMisfire ==
    \/ \E we \in BOOLEAN, e \in BOOLEAN : ButtonSetTime("u1", T0800, we, e)
    \/ \E d \in Delays, e \in BOOLEAN : ProcessDue("u1", d, e)
    \/ \E d \in Delays : StartLate("u1", d)
    \/ \E resp \in RespFire : FireNext(resp, FALSE, FALSE)
    \/ FireAwait
    \/ \E ok \in BOOLEAN : SummaryDone(ok)
    \/ \E ok \in BOOLEAN : HeaderDone("sched", ok)
    \/ \E out \in {"ok", "nocontent", "procraise"} : ItemProc("sched", out)
    \/ \E ok \in BOOLEAN, re \in BOOLEAN : SendDone("sched", ok, re)
    \/ \E ok \in BOOLEAN : FooterDone("sched", ok)

SpecMisfire == Init /\ [][NextMisfire]_vars

\* ------------------------------- jobs removed while a firing is in flight
\* the steps of a firing after the job function was called
InFlight ==
    \/ \E resp \in RespFire : FireNext(resp, FALSE, FALSE)
    \/ FireAwait
    \/ \E ok \in BOOLEAN : SummaryDone(ok)
    \/ \E ok \in BOOLEAN : HeaderDone("sched", ok)
    \/ \E out \in {"ok", "nocontent", "procraise"} : ItemProc("sched", out)
    \/ \E ok \in BOOLEAN, re \in BOOLEAN : SendDone("sched", ok, re)
    \/ \E ok \in BOOLEAN : FooterDone("sched", ok)

NextCancel ==
    \/ \E we \in BOOLEAN, e \in BOOLEAN : ButtonSetTime("u1", T0800, we, e)
    \/ \E we \in BOOLEAN, e \in BOOLEAN : ButtonClearTime("u1", we, e)
    \/ \E e \in BOOLEAN : UpdateUserSchedule("u1", e)
    \/ RemoveUserSchedule("u1")
    \/ \E e \in BOOLEAN : Fire("u1", e)
    \/ InFlight

SpecCancel == Init /\ [][NextCancel]_vars

\* ------------------------------------------ a stored timezone of any kind
\* update_user_preferences stores the timezone string it is given
NextTz ==
    \/ \E tz \in TzInputs, err \in BOOLEAN :
          UpdatePrefs("u1", [f \in {"timezone"} |-> tz], err)
    \/ \E t \in {T0800, T1200}, we \in BOOLEAN, e \in BOOLEAN : ButtonSetTime("u1", t, we, e)
    \/ \E on \in BOOLEAN, we \in BOOLEAN, e \in BOOLEAN : ButtonNotifications("u1", on, we, e)
    \/ \E e \in BOOLEAN : UpdateUserSchedule("u1", e)
    \/ \E e \in BOOLEAN : Restart(e)

SpecTz == Init /\ [][NextTz]_vars

\* -------------------------- category choices, restarts and firings of u1
\* a category list stored through update_user_preferences that names a
\* category without a source configuration
CatsUnconfigured == << <<"weather">>, <<"science">> >>

NextCats ==
    \/ \E re \in BOOLEAN : ButtonToggleCat("u1", <<"science">>, re, FALSE, FALSE)
    \/ \E we \in BOOLEAN : ButtonUnsubAll("u1", we, FALSE)
    \/ UpdatePrefs("u1", [f \in {"subscribed_categories"} |-> CatsUnconfigured], FALSE)
    \/ ButtonSetTime("u1", T0800, FALSE, FALSE)
    \/ \E e \in BOOLEAN : Restart(e)
    \/ \E e \in BOOLEAN : Fire("u1", e)
    \/ \E resp \in RespFire : FireNext(resp, FALSE, FALSE)
    \/ FireAwait
    \/ \E ok \in BOOLEAN : SummaryDone(ok)
    \/ \E ok \in BOOLEAN : HeaderDone("sched", ok)
    \/ \E out \in {"ok", "procraise"} : ItemProc("sched", out)
    \/ \E ok \in BOOLEAN : SendDone("sched", ok, FALSE)
    \/ \E ok \in BOOLEAN : FooterDone("sched", ok)

SpecCats == Init /\ [][NextCats]_vars

\* ------------------- firings of u1 while both recipients' jobs are resynced
NextErr ==
    \/ \E u \in Users, t \in {T0800, T2500}, e \in BOOLEAN : ButtonSetTime(u, t, FALSE, e)
    \/ \E e \in BOOLEAN : Fire("u1", e)
    \/ \E resp \in RespFire : FireNext(resp, FALSE, FALSE)
    \/ FireAwait
    \/ \E ok \in BOOLEAN : SummaryDone(ok)
    \/ \E ok \in BOOLEAN : HeaderDone("sched", ok)
    \/ \E out \in {"ok", "procraise"} : ItemProc("sched", out)
    \/ \E ok \in BOOLEAN : SendDone("sched", ok, FALSE)
    \/ \E ok \in BOOLEAN : FooterDone("sched", ok)

SpecErr == Init /\ [][NextErr]_vars

\* ------------------------------------- the two stores and their failures
NextStore ==
    \/ \E u \in RunUsers, t \in Titles, err \in BOOLEAN : RecordSent(u, t, err)
    \/ \E u \in RunUsers, t \in Titles, err \in BOOLEAN : IsSent(u, t, err)
    \/ \E u \in RunUsers, err \in BOOLEAN : GetPrefs(u, err)
    \/ \E u \in RunUsers, kw \in KwInputs, err \in BOOLEAN : UpdatePrefs(u, kw, err)
    \/ \E u \in RunUsers, err \in BOOLEAN : RegisterUser(u, err)
    \/ \E u \in RunUsers, n \in LimitInputs, err \in BOOLEAN : SettingsLimit(u, n, err)

SpecStore == Init /\ [][NextStore]_vars

\* ------------------------------------ the preference rows of two recipients
NextPrefs ==
    \/ \E u \in Users, kw \in KwFrame, err \in BOOLEAN : UpdatePrefs(u, kw, err)
    \/ \E u \in Users, err \in BOOLEAN : RegisterUser(u, err)
    \/ \E u \in Users, err \in BOOLEAN : GetPrefs(u, err)
    \/ Tick

SpecPrefs == Init /\ [][NextPrefs]_vars

\* --------------------- the scheduler while nobody sets the notifications flag
NextDefault ==
    \/ \E u \in Users, t \in TimeInputs, we \in BOOLEAN, e \in BOOLEAN : ButtonSetTime(u, t, we, e)
    \/ \E u \in Users, we \in BOOLEAN, e \in BOOLEAN : ButtonClearTime(u, we, e)
    \/ \E u \in Users, tz \in TzInputs, we \in BOOLEAN, e \in BOOLEAN : ButtonSetTz(u, tz, we, e)
    \/ \E u \in Users, t \in TimeInputs, we \in BOOLEAN : SettingsTime(u, t, we)
    \/ \E u \in Users, e \in BOOLEAN : UpdateUserSchedule(u, e)
    \/ \E u \in Users : RemoveUserSchedule(u)
    \/ \E e \in BOOLEAN : Restart(e)

SpecDefault == Init /\ [][NextDefault]_vars

\* ------------------------------------ news_processor.send_message
\* a message is a sequence of runs [ch, n]: n times the character ch
max_length == 4000

RECURSIVE MsgLen(_)
MsgLen(m) == IF m = <<>> THEN 0 ELSE Head(m).n + MsgLen(Tail(m))

\* not message or not message.strip()
Blank(m) == \A k \in 1..Len(m) : m[k].ch = " " \/ m[k].n = 0

\* message[:k] and message[k:]
RECURSIVE Take(_, _)
Take(m, k) ==
    IF m = <<>> \/ k <= 0 THEN <<>>
    ELSE IF Head(m).n <= k THEN <<Head(m)>> \o Take(Tail(m), k - Head(m).n)
    ELSE <<[ch |-> Head(m).ch, n |-> k]>>

RECURSIVE Drop(_, _)
Drop(m, k) ==
    IF m = <<>> \/ k <= 0 THEN m
    ELSE IF Head(m).n <= k THEN Drop(Tail(m), k - Head(m).n)
    ELSE <<[ch |-> Head(m).ch, n |-> Head(m).n - k]>> \o Tail(m)

\* [message[i : i + max_length] for i in range(0, len(message), max_length)]
RECURSIVE Parts(_)
Parts(m) ==
    IF MsgLen(m) = 0 THEN <<>>
    ELSE <<Take(m, max_length)>> \o Parts(Drop(m, max_length))

\* what one attempt meets: requests.post raises (connection error, timeout);
\* raise_for_status raises HTTPError; the answer says ok; the answer says
\* not ok; response.json() raises on the body; anything else raises
Outcomes == {"connection", "status", "ok", "notok", "badjson", "unexpected"}

\* the exceptions the first except clause catches: RequestException and its
\* subclasses (jsonIsReq: the installed requests raises its own
\* JSONDecodeError, a RequestException, for a body that is not JSON; older
\* versions raise a plain ValueError)
IsRequestException(o, jsonIsReq) ==
    o \in {"connection", "status"} \/ (o = "badjson" /\ jsonIsReq)

\* a mutant: the wait is also made after the third failure
RECURSIVE Attempts_wait(_, _, _)
Attempts_wait(attempt, outs, jsonIsReq) ==
    IF attempt > 2 THEN [ret |-> FALSE, log |-> <<>>, met |-> <<>>]
    ELSE LET o == outs[attempt + 1]
             this == <<[ev |-> "attempt", s |-> 0]>>
         IN IF o = "ok" THEN [ret |-> TRUE, log |-> this, met |-> <<o>>]
            ELSE IF IsRequestException(o, jsonIsReq)
            THEN LET rest == Attempts_wait(attempt + 1, outs, jsonIsReq)
                 IN [ret |-> rest.ret,
                     log |-> this \o <<[ev |-> "sleep", s |-> 2 ^ attempt]>> \o rest.log,
                     met |-> <<o>> \o rest.met]
            ELSE [ret |-> FALSE, log |-> this, met |-> <<o>>]

\* for attempt in range(3): the result, what was done (an attempt, or a sleep
\* of s seconds) and, as a ghost, what the attempts met
RECURSIVE Attempts(_, _, _)
Attempts(attempt, outs, jsonIsReq) ==
    IF attempt > 2 THEN [ret |-> FALSE, log |-> <<>>, met |-> <<>>]
    ELSE LET o == outs[attempt + 1]
             this == <<[ev |-> "attempt", s |-> 0]>>
         IN IF o = "ok" THEN [ret |-> TRUE, log |-> this, met |-> <<o>>]
            ELSE IF IsRequestException(o, jsonIsReq)
            THEN LET rest == Attempts(attempt + 1, outs, jsonIsReq)
                 IN [ret |-> rest.ret,
                     log |-> this \o (IF attempt < 2
                                       THEN <<[ev |-> "sleep", s |-> 2 ^ attempt]>>
                                       ELSE <<>>) \o rest.log,
                     met |-> <<o>> \o rest.met]
            ELSE [ret |-> FALSE, log |-> this, met |-> <<o>>]

\* send_message of a message that is not split
send_one(message, outs, jsonIsReq) ==
    IF Blank(message) THEN [ret |-> FALSE, log |-> <<>>, met |-> <<>>]
    ELSE Attempts(0, outs, jsonIsReq)

\* the parts of a long message, one after the other (outss[k]: what the
\* attempts for part k meet); a part that fails ends the call
RECURSIVE send_parts(_, _, _, _)
send_parts(parts, k, outss, jsonIsReq) ==
    IF k > Len(parts) THEN [ret |-> TRUE, log |-> <<>>, met |-> <<>>]
    ELSE LET r == send_one(parts[k], outss[k], jsonIsReq)
         IN IF ~r.ret THEN r
            ELSE LET rest == send_parts(parts, k + 1, outss, jsonIsReq)
                 IN [ret |-> rest.ret,
                     log |-> r.log \o <<[ev |-> "part_sleep", s |-> 0]>> \o rest.log,
                     met |-> r.met \o rest.met]

send_message(message, outss, jsonIsReq) ==
    IF Blank(message) THEN [ret |-> FALSE, log |-> <<>>, met |-> <<>>]
    ELSE IF MsgLen(message) > max_length
    THEN send_parts(Parts(message), 1, outss, jsonIsReq)
    ELSE Attempts(0, outss[1], jsonIsReq)

\* the messages sent: empty, blank, short, of the longest unsplit length, one
\* character longer, and a long one whose second part is blank
Messages ==
    {<<>>,
     <<[ch |-> " ", n |-> 3]>>,
     <<[ch |-> "a", n |-> 10]>>,
     <<[ch |-> "a", n |-> max_length]>>,
     <<[ch |-> "a", n |-> max_length + 1]>>,
     <<[ch |-> "a", n |-> max_length], [ch |-> " ", n |-> 5]>>}

\* what the attempts for the first part, or the whole message, meet
OutSeqs == [1..3 -> Outcomes]

\* what the attempts for the second part meet
OutSeqs2 ==
    {[k \in 1..3 |-> "ok"], [k \in 1..3 |-> "connection"], [k \in 1..3 |-> "notok"]}

SendMessage(message, outs, outs2, jsonIsReq) ==
    LET r == send_message(message, <<outs, outs2>>, jsonIsReq) IN
    /\ last' = [op |-> "send_message", message |-> message, met |-> r.met,
                jsonIsReq |-> jsonIsReq, ret |-> r.ret, log |-> r.log]
    /\ UNCHANGED <<ledger, prefs, jobs, runs, fire, delivered, acked, users>>

NextSend ==
    \E message \in Messages, outs \in OutSeqs, outs2 \in OutSeqs2, jsonIsReq \in BOOLEAN :
        SendMessage(message, outs, outs2, jsonIsReq)

SpecSend == Init /\ [][NextSend]_vars

\* C1 (as stated): once record_sent_message(t, r) has returned True and the
\* row is not purged, every later is_message_sent(t, r) returns True and
\* every later record_sent_message(t, r) returns False and adds no row.
C1_AsStated ==
    /\ (last.op = "is_message_sent" /\ last.was) => last.ret
    /\ (last.op = "record_sent_message" /\ last.was) => (~last.ret /\ last.added = 0)

\* C1 (amended): as C1, for every later is_message_sent(t, r) that does not
\* itself hit a storage error (on sqlite3.Error the lookup returns False).
C1_Dedup ==
    /\ (last.op = "is_message_sent" /\ last.was /\ ~last.err) => last.ret
    /\ (last.op = "record_sent_message" /\ last.was) => (~last.ret /\ last.added = 0)

C1_Witness ==
    /\ last.op = "record_sent_message"
    /\ last.was
    /\ ~last.err
    /\ ~last.ret
    /\ RowCount(ledger, last.user, last.title) = 1

\* C2: record_sent_message(t, r1) changes neither the result of
\* is_message_sent(t', r2) nor the result of record_sent_message(t', r2)
\* for any other recipient r2 and any title t'.
C2_Isolation ==
    [][\A u \in Users, t \in Titles, e \in BOOLEAN :
        RecordSent(u, t, e) =>
            \A r2 \in Users \ {u}, t2 \in Titles, e2 \in BOOLEAN :
                /\ is_message_sent(ledger', t2, r2, e2) = is_message_sent(ledger, t2, r2, e2)
                /\ record_sent_message(ledger', t2, r2, e2).ret
                      = record_sent_message(ledger, t2, r2, e2).ret]_vars

C2_Witness ==
    /\ last.op = "record_sent_message"
    /\ last.ret
    /\ \E r2 \in Users \ {last.user} :
          /\ ~is_message_sent(ledger, last.title, r2, FALSE)
          /\ is_message_sent(ledger, last.title, last.user, FALSE)
\* C3 (as stated): over delivery runs that do not overlap, with no purge in
\* between, every title is sent to a recipient at most once, also when one
\* run's candidate list holds the same title more than once.
C3_AsStated ==
    \A u \in Users, t \in Titles : delivered[u][t] <= 1

\* C4 (as stated): when the send of an item fails in a delivery run, the
\* item's title is absent from the recipient's ledger after the run unless
\* it was there before the run.
C4_AsStated ==
    \A s \in Slots :
        runs[s].pc = "done" =>
            \A t \in runs[s].failed :
                t \in runs[s].pre \/ RowCount(ledger, runs[s].user, t) = 0

\* C5 (as stated): for every stored daily_limit, one delivery run sends and
\* records at most daily_limit items (none when daily_limit is not positive).
C5_AsStated ==
    \A s \in Slots :
        runs[s].pc # "idle" => runs[s].sent <= Max(runs[s].limit, 0)

\* C10: a delivery run ends by returning a non-negative count and never
\* lets an exception reach its caller, whatever fetch, processing, send or
\* storage failures occur.
C10_NoFailOutward ==
    \A s \in Slots :
        runs[s].pc = "done" => (runs[s].ret \in Nat /\ ~runs[s].raised)

\* a run whose footer send raised after an article had been sent and recorded
C10_Witness ==
    /\ runs["manual"].pc = "done"
    /\ runs["manual"].sent > 0
    /\ runs["manual"].ret = 0
    /\ \E t \in Titles : RowCount(ledger, runs["manual"].user, t) > 0
\* the stored row asks for a schedule: notifications on and a time CronTrigger accepts
StoredWants(u) ==
    /\ prefs[u] # None
    /\ prefs[u][1].notif
    /\ Truthy(prefs[u][1].time)
    /\ ParseTime(prefs[u][1].time[1]).ok
    /\ CronOK(ParseTime(prefs[u][1].time[1]).hour, ParseTime(prefs[u][1].time[1]).minute)

Scheduled(u) == u \in get_scheduled_users(jobs)

\* the job fires at the stored hour:minute in the stored timezone (UTC for a name pytz rejects)
JobMatches(j) ==
    /\ prefs[j.user] # None
    /\ Truthy(prefs[j.user][1].time)
    /\ ParseTime(prefs[j.user][1].time[1]) = [ok |-> TRUE, hour |-> j.hour, minute |-> j.minute]
    /\ j.tz = IF prefs[j.user][1].tz \in ValidTZ THEN prefs[j.user][1].tz ELSE UTC

\* C6: the scheduler never holds two jobs for one recipient, and the job a
\* recipient has after update_user_schedule (or after the startup load)
\* fires at the stored preferred time in the stored timezone.
C6_SingleTimer ==
    /\ \A u \in Users : Cardinality({j \in jobs : j.user = u}) <= 1
    /\ last.op = "update_user_schedule" =>
          \A j \in jobs : j.user = last.user => JobMatches(j)
    /\ last.op = "start" => \A j \in jobs : JobMatches(j)

\* a job was replaced by one at 12:00 London time
C6_Witness ==
    /\ last.op = "update_user_schedule"
    /\ last.had
    /\ \E j \in jobs : j.user = last.user /\ j.hour = 12 /\ j.tz = London

\* C7 (as stated): after update_user_schedule(r) the recipient has a job
\* exactly when the stored preferences have notifications enabled and a
\* valid preferred time.
C7_AsStated ==
    last.op = "update_user_schedule" => (Scheduled(last.user) <=> StoredWants(last.user))

\* C7 (amended): as C7, when the preference read of update_user_schedule
\* does not hit a storage error (on an error the defaults, which have no
\* preferred time, are used and the recipient ends without a job).
C7_Lifecycle ==
    /\ (last.op = "update_user_schedule" /\ ~last.err) =>
          (Scheduled(last.user) <=> StoredWants(last.user))
    /\ (last.op = "update_user_schedule" /\ last.err) => ~Scheduled(last.user)

\* notifications were disabled while a job was armed: the job is gone
C7_Witness ==
    /\ last.op = "update_user_schedule"
    /\ ~last.err
    /\ last.had
    /\ ~Scheduled(last.user)
    /\ prefs[last.user] # None
    /\ ~prefs[last.user][1].notif
    /\ prefs[last.user][1].time = Some(T0800)

\* C8 (as stated): after every completed command that changes the
\* notifications flag, the preferred time or the timezone without a storage
\* error, the recipient's job agrees with the stored preferences.
C8_AsStated ==
    ((last.op = "settings_command" /\ ~last.err)
        \/ (last.op = "update_user_schedule" /\ ~last.err /\ ~last.werr)) =>
            /\ Scheduled(last.user) <=> StoredWants(last.user)
            /\ \A j \in jobs : j.user = last.user => JobMatches(j)
\* C9 (as stated): when the stored row says notifications are disabled at
\* the moment a job fires, that firing invokes no delivery run.
C9_AsStated ==
    runs["sched"].pc # "idle" => ~fire.disabled
\* C11 (as stated): the count a delivery run returns is the number of items
\* it sent, which is the number of ledger rows it added, also when the
\* footer send fails and when record_sent_message returns False.
C11_AsStated ==
    \A s \in Slots :
        runs[s].pc = "done" =>
            (runs[s].ret = runs[s].sent /\ runs[s].sent = runs[s].rows)

\* C12 (as stated): a delivery run with no candidate left after the filter
\* sends one "nothing new" notice and returns 0.
C12_AsStated ==
    \A s \in Slots :
        (runs[s].pc = "done" /\ runs[s].new = <<>>) =>
            ("nothing_new" \in runs[s].notices /\ runs[s].ret = 0)

\* C13 (as stated): a delivery run with a fresh candidate, none of whose
\* notice sends raises, sends the header and the footer, also when it sent
\* no item.
C13_AsStated ==
    \A s \in Slots :
        (runs[s].pc = "done" /\ runs[s].new # <<>> /\ runs[s].sendfail = {}) =>
            runs[s].notices = {"header", "footer"}

\* C14 (as stated): when the header send fails, the run still processes
\* every candidate up to the cap.
C14_AsStated ==
    \A s \in Slots :
        (runs[s].pc = "done" /\ "header" \in runs[s].sendfail) =>
            runs[s].i > Len(TodoList(runs[s].new, runs[s].limit))

\* C15: when the processing of a candidate yields nothing or raises, or its
\* send raises, nothing is recorded or counted for it, the rows already in
\* the ledger stay, and the run goes on with the next candidate (or, after
\* the last one, to the footer or the return of the count).
C15_ItemIsolation ==
    [][\A s \in Slots :
        ((\E out \in {"nocontent", "procraise"} : ItemProc(s, out))
            \/ (\E re \in BOOLEAN : SendDone(s, FALSE, re))) =>
                /\ ledger' = ledger
                /\ delivered' = delivered
                /\ runs'[s].sent = runs[s].sent
                /\ runs'[s].rows = runs[s].rows
                /\ runs'[s].i = runs[s].i + 1
                /\ runs'[s].i <= Len(runs[s].todo) => runs'[s].pc = "item"
                /\ runs'[s].i > Len(runs[s].todo) =>
                      \/ runs'[s].pc = "footer" /\ runs[s].sent > 0
                      \/ runs'[s].pc = "done" /\ runs'[s].ret = 0 /\ runs[s].sent = 0]_vars

\* the send of the first of two candidates raised, the second was sent and recorded
C15_Witness ==
    /\ runs["manual"].pc = "done"
    /\ Len(runs["manual"].todo) = 2
    /\ runs["manual"].failed = {runs["manual"].todo[1].title}
    /\ runs["manual"].todo[2].title \notin runs["manual"].failed
    /\ runs["manual"].ret = 1
    /\ RowCount(ledger, runs["manual"].user, runs["manual"].todo[2].title) = 1
    /\ RowCount(ledger, runs["manual"].user, runs["manual"].todo[1].title) = 0

C17_Discarded ==
    \A s \in Slots :
        runs[s].pc # "idle" =>
            /\ \A a \in runs[s].fetch.asked : Valid(a)
            /\ \A k \in 1..Len(runs[s].new) : Valid(runs[s].new[k])
            /\ \A k \in 1..Len(runs[s].todo) : Valid(runs[s].todo[k])

\* a returned article was discarded and the run goes on with the others
C17_Witness ==
    /\ runs["manual"].pc = "header"
    /\ runs["manual"].fetch.dropped
    /\ runs["manual"].fetch.asked # {}
    /\ runs["manual"].new # <<>>

\* C18 (as stated): the send of an article is given up only after more than
\* one attempt.
C18_AsStated ==
    \A s \in Slots :
        (runs[s].pc # "idle" /\ runs[s].failed # {}) => runs[s].tries > 1
\* C19: on a storage error is_message_sent returns False,
\* get_user_preferences returns the default preferences,
\* record_sent_message returns False and adds no row, and
\* update_user_preferences returns False and leaves every row as it was.
C19_FailSafe ==
    /\ (last.op = "is_message_sent" /\ last.err) => ~last.ret
    /\ (last.op = "get_user_preferences" /\ last.err) => last.ret = DefaultPrefs
    /\ (last.op = "record_sent_message" /\ last.err) => (~last.ret /\ last.added = 0)
    /\ (last.op = "update_user_preferences" /\ last.err) => (~last.ret /\ last.same)

\* an update failed on a row that differs from the defaults
C19_Witness ==
    /\ last.op = "update_user_preferences"
    /\ last.err
    /\ ~last.ret
    /\ prefs[last.user] # None
    /\ prefs[last.user][1] # DefaultRow

\* C20 (as stated): while no recipient has set the notifications flag, a
\* recipient with a preferences row is reported with notifications disabled
\* and has no job, whatever preferred time was set.
C20_AsStated ==
    \A u \in Users :
        prefs[u] # None =>
            (~get_user_preferences(prefs, u, FALSE).notifications /\ ~Scheduled(u))
C22_AsStated ==
    (last.op = "register_user" /\ ~last.err /\ last.before # None) =>
        /\ last.samep
        /\ users[last.user][1].created_at = last.before[1].created_at
        /\ users[last.user][1].is_active = last.before[1].is_active

\* C23: cleanup_old_messages and cleanup_old_user_messages delete no row
\* younger than the horizon, so for a title with a fresh row the results of
\* is_message_sent and record_sent_message are the same after the purge as
\* before it; cleanup_old_user_messages deletes no row of another recipient.
C23_FreshKept ==
    [][\A u \in Users :
        (CleanupAll \/ CleanupUser(u)) =>
            /\ \A r \in Users, t \in Titles :
                  /\ ledger'[r][t].fresh = ledger[r][t].fresh
                  /\ ledger[r][t].fresh > 0 =>
                        \A e \in BOOLEAN :
                           /\ is_message_sent(ledger', t, r, e) = is_message_sent(ledger, t, r, e)
                           /\ record_sent_message(ledger', t, r, e).ret
                                 = record_sent_message(ledger, t, r, e).ret
            /\ CleanupUser(u) => \A r \in Users \ {u} : ledger'[r] = ledger[r]]_vars

C23_Witness ==
    /\ last.op = "cleanup_old_user_messages"
    /\ last.deleted_count > 0
    /\ \E t \in Titles : ledger[last.user][t].fresh > 0
    /\ \E r \in Users \ {last.user}, t \in Titles : ledger[r][t].old > 0

\* C24: under every interleaving of delivery runs the ledger holds at most
\* one row per recipient and title: the check and the insert of
\* record_sent_message are one step.
C24_OneRow ==
    \A u \in Users, t \in Titles : ledger[u][t].fresh + ledger[u][t].old <= 1

C24_Witness ==
    /\ runs["sched"].pc # "idle"
    /\ runs["manual"].pc # "idle"
    /\ runs["sched"].user = runs["manual"].user
    /\ runs["sched"].sent = 1
    /\ runs["manual"].sent = 1
    /\ runs["sched"].rows + runs["manual"].rows = 1
    /\ delivered[runs["sched"].user]["t1"] = 2
    /\ ledger[runs["sched"].user]["t1"].fresh = 1

\* C25: a scheduled run and an on-demand run for the same recipient are not
\* serialized: while the scheduled run is in flight an on-demand run for that
\* recipient can start; the witness is the interleaving in which the same
\* title is sent twice and the recipient receives more than daily_limit items.
C25_NotSerialized ==
    \A u \in Users :
        (runs["sched"].pc \notin {"idle", "done"} /\ runs["sched"].user = u
            /\ runs["manual"].pc = "idle") =>
        \A resp \in RespOverlap :
            ENABLED BeginManual(u, resp, FALSE, FALSE)

C25_Witness ==
    /\ runs["sched"].pc = "done"
    /\ runs["manual"].pc = "done"
    /\ runs["sched"].user = runs["manual"].user
    /\ runs["sched"].limit = 1
    /\ runs["manual"].limit = 1
    /\ runs["sched"].todo = <<[title |-> "t1", link |-> "l"]>>
    /\ runs["manual"].todo = runs["sched"].todo
    /\ runs["sched"].ret + runs["manual"].ret > runs["sched"].limit
    /\ delivered[runs["sched"].user]["t1"] = 2

\* C26: a step of one recipient's run, whatever its outcome, changes nothing
\* that another recipient's run reads or writes: the other recipient's ledger
\* rows, sends, preferences and run in flight stay as they are, and a run of
\* the other recipient reads the same preferences and gets the same answers
\* from is_message_sent and record_sent_message as before the step.
C26_Isolation ==
    [][\A s \in Slots :
        (runs'[s] # runs[s]) =>
            LET u == IF runs'[s].pc # "idle" THEN runs'[s].user ELSE runs[s].user IN
            \A r1 \in Users \ {u} :
                /\ ledger'[r1] = ledger[r1]
                /\ delivered'[r1] = delivered[r1]
                /\ prefs'[r1] = prefs[r1]
                /\ \A s1 \in Slots \ {s} :
                      (runs[s1].pc # "idle" /\ runs[s1].user = r1) => runs'[s1] = runs[s1]
                /\ \A e \in BOOLEAN :
                      get_user_preferences(prefs', r1, e) = get_user_preferences(prefs, r1, e)
                /\ \A t \in Titles, e \in BOOLEAN :
                      /\ is_message_sent(ledger', t, r1, e) = is_message_sent(ledger, t, r1, e)
                      /\ record_sent_message(ledger', t, r1, e).ret
                            = record_sent_message(ledger, t, r1, e).ret]_vars

C26_Witness ==
    /\ runs["sched"].pc = "done"
    /\ runs["sched"].user = "u1"
    /\ runs["sched"].ret = 1
    /\ runs["sched"].rows = 1
    /\ runs["manual"].pc = "done"
    /\ runs["manual"].user = "u2"
    /\ runs["manual"].failed = {"t1"}
    /\ runs["manual"].sendfail = {"footer"}
    /\ ledger["u2"]["t2"].fresh = 1
    /\ ledger["u1"]["t1"].fresh = 1
    /\ ledger["u2"]["t1"].fresh = 0

\* C27 (as stated): an occurrence of a recipient's job that could not run at
\* its nominal instant is fired (the job function is called) when the
\* scheduler gets to it at most 3600 seconds late, and is skipped when the
\* delay is longer.
C27_AsStated ==
    (last.op \in {"process_jobs", "start"} /\ "delay" \in DOMAIN last) =>
        (last.called <=> last.delay <= 3600)

\* C28: remove_user_schedule and update_user_schedule leave a delivery in
\* flight as it is, the delivery in flight can always take its next step
\* whether or not the job still exists, and while the recipient has no job no
\* firing for that recipient starts.
C28_FutureOnly ==
    /\ [][\A u \in Users :
            (RemoveUserSchedule(u) \/ \E e \in BOOLEAN : UpdateUserSchedule(u, e)) =>
                (fire' = fire /\ runs' = runs)]_vars
    /\ [](fire.pc # "idle" => ENABLED InFlight)
    /\ [](\A u \in Users : ~get_job(jobs, u) => ~ENABLED (\E e \in BOOLEAN : Fire(u, e)))

C28_Witness ==
    /\ last.op = "remove_user_schedule"
    /\ last.ret
    /\ fire.pc = "wait"
    /\ fire.user = last.user
    /\ runs["sched"].pc = "send"
    /\ ~get_job(jobs, last.user)

\* C29 (as stated): for a recipient whose stored row has notifications
\* enabled, a valid preferred time and a timezone name pytz rejects,
\* update_user_schedule arms the recipient's job at that hour:minute in UTC.
C29_AsStated ==
    (last.op = "update_user_schedule" /\ StoredWants(last.user)
        /\ prefs[last.user][1].tz \notin ValidTZ) =>
    \E j \in jobs :
        /\ j.user = last.user
        /\ j.tz = UTC
        /\ ParseTime(prefs[last.user][1].time[1]) = [ok |-> TRUE, hour |-> j.hour, minute |-> j.minute]

\* C29 (amended): as C29, when the preference read of update_user_schedule
\* does not hit a storage error.
C29_UtcFallback ==
    (last.op = "update_user_schedule" /\ ~last.err /\ StoredWants(last.user)
        /\ prefs[last.user][1].tz \notin ValidTZ) =>
    \E j \in jobs :
        /\ j.user = last.user
        /\ j.tz = UTC
        /\ ParseTime(prefs[last.user][1].time[1]) = [ok |-> TRUE, hour |-> j.hour, minute |-> j.minute]

C29_Witness ==
    /\ last.op = "update_user_schedule"
    /\ ~last.err
    /\ prefs[last.user] # None
    /\ prefs[last.user][1].tz = <<"Mars/Phobos">>
    /\ prefs[last.user][1].time = Some(T1200)
    /\ prefs[last.user][1].notif
    /\ \E j \in jobs : j.user = last.user /\ j.hour = 12 /\ j.minute = 0 /\ j.tz = UTC

\* C30: when the stored preferred time is malformed (not two integers
\* separated by ':', or an hour or minute the trigger rejects),
\* update_user_schedule leaves the recipient without a job, also when a job
\* was armed before, and it never changes the job of another recipient.
C30_Malformed ==
    /\ [](\A u \in Users :
            (last.op = "update_user_schedule" /\ last.user = u /\ prefs[u] # None
                /\ Truthy(prefs[u][1].time)
                /\ LET pt == ParseTime(prefs[u][1].time[1])
                   IN ~pt.ok \/ pt.hour \notin 0..23 \/ pt.minute \notin 0..59) =>
            ~Scheduled(u))
    /\ [][last'.op = "update_user_schedule" =>
                {j \in jobs' : j.user # last'.user} = {j \in jobs : j.user # last'.user}]_vars

C30_Witness ==
    /\ last.op = "update_user_schedule"
    /\ last.had
    /\ prefs[last.user] # None
    /\ prefs[last.user][1].notif
    /\ prefs[last.user][1].time \in {Some(T2500), Some(TBad)}
    /\ ~Scheduled(last.user)
    /\ \E u2 \in Users \ {last.user} : Scheduled(u2)

C32_AsStated ==
    /\ [](fire.pc \in {"loop", "wait", "summary"} =>
             fire.ran = SubSeq(fire.cats, 1, IF fire.pc = "wait" THEN fire.i ELSE fire.i - 1))
    /\ []((fire.pc = "wait") <=> (runs["sched"].pc # "idle"))
    /\ [][(fire.pc = "loop" /\ fire.i > Len(fire.cats) /\ fire' # fire /\ last' = last)
             => ((fire'.pc = "summary") <=> (fire.total >= 1))]_vars

\* C32 (amended): in one firing with notifications enabled there is exactly
\* one delivery run per captured category that has a source configuration,
\* one after the other in the captured order (a run is in progress exactly
\* while the firing waits for it), then the summary is sent if and only if
\* the total returned by the runs is at least 1.
C32_Sequential ==
    /\ [](fire.pc \in {"loop", "wait", "summary"} =>
             fire.ran = SelectSeq(SubSeq(fire.cats, 1,
                                         IF fire.pc = "wait" THEN fire.i ELSE fire.i - 1),
                                  LAMBDA c : \E k \in 1..Len(NEWS_CATEGORIES) :
                                                 NEWS_CATEGORIES[k] = c))
    /\ []((fire.pc = "wait") <=> (runs["sched"].pc # "idle"))
    /\ [](fire.pc = "summary" => fire.total >= 1 /\ fire.i > Len(fire.cats))
    /\ [][(fire.pc = "loop" /\ fire.i > Len(fire.cats) /\ fire' # fire /\ last' = last)
             => ((fire'.pc = "summary") <=> (fire.total >= 1))]_vars

\* a firing over three categories, one of them run without a delivery, has
\* reached its summary
C32_Witness ==
    /\ fire.pc = "summary"
    /\ Len(fire.ran) >= 3
    /\ fire.total < Len(fire.ran)

\* C39: a firing runs a delivery only for categories that are in the job's
\* captured set and have a source configuration; a captured category without
\* one is passed over, the firing goes on, and every configured category
\* before the current position has had its run.
C39_OnlyConfigured ==
    fire.pc \in {"loop", "wait", "summary"} =>
        /\ \A k \in 1..Len(fire.ran) :
              /\ \E n \in 1..Len(fire.cats) : fire.cats[n] = fire.ran[k]
              /\ \E n \in 1..Len(NEWS_CATEGORIES) : NEWS_CATEGORIES[n] = fire.ran[k]
        /\ \A n \in 1..Len(fire.cats) :
              (n < fire.i /\ \E m \in 1..Len(NEWS_CATEGORIES) : NEWS_CATEGORIES[m] = fire.cats[n])
                  => \E k \in 1..Len(fire.ran) : fire.ran[k] = fire.cats[n]

\* a firing whose captured set begins with a category without a source
\* configuration has finished its loop and has run the configured one after it
C39_Witness ==
    /\ fire.pc = "loop"
    /\ fire.i > Len(fire.cats)
    /\ fire.cats = CatsUnconfigured
    /\ fire.ran = << <<"science">> >>

\* C38 (as stated): for every stored row, the job load_user_schedules arms at
\* startup is the job update_user_schedule arms for the same row: same time,
\* timezone and captured categories, the empty category column included.
C38_AsStated ==
    \A u \in Users :
        prefs[u] # None =>
            load_user_schedules({}, prefs, {u}) = update_user_schedule({}, prefs, u, FALSE)

\* C34: remove_user_schedule(r) returns True exactly when a job of r existed
\* before the call; after it r has no job and the jobs of the other
\* recipients are as before; a remove that directly follows a remove of the
\* same recipient returns False.
C34_Remove ==
    [][last'.op = "remove_user_schedule" =>
          /\ last'.ret <=> (\E j \in jobs : j.user = last'.user)
          /\ ~\E j \in jobs' : j.user = last'.user
          /\ {j \in jobs' : j.user # last'.user} = {j \in jobs : j.user # last'.user}
          /\ (last.op = "remove_user_schedule" /\ last.user = last'.user) => ~last'.ret]_vars

\* a remove has returned True while the other recipient keeps a job
C34_Witness ==
    /\ last.op = "remove_user_schedule"
    /\ last.ret
    /\ \E j \in jobs : j.user # last.user

\* C36 (as stated): send_message of a message of at most 4000 characters
\* makes at most 3 attempts, goes to a further attempt only after a
\* transport-level failure of the request (waiting 1 then 2 seconds, not
\* after the third), returns True on the first accepted attempt, returns
\* False at once on any other answer or error and after the third transport
\* failure; an empty or blank message returns False without an attempt.
C36_AsStated ==
    (last.op = "send_message" /\ MsgLen(last.message) <= max_length) =>
        IF Blank(last.message) THEN ~last.ret /\ last.log = <<>>
        ELSE LET n == Len(last.met) IN
             /\ n \in 1..3
             /\ \A k \in 1..(n - 1) : last.met[k] = "connection"
             /\ last.met[n] = "connection" => n = 3
             /\ last.ret <=> (last.met[n] = "ok")
             /\ Len(last.log) = 2 * n - 1
             /\ \A k \in 1..n : last.log[2 * k - 1].ev = "attempt"
             /\ \A k \in 1..(n - 1) : last.log[2 * k] = [ev |-> "sleep", s |-> k]

\* C36 (amended): as C36, where the failures that lead to a further attempt
\* are all the exceptions of the requests library: a failed connection or
\* timeout, an answer with an HTTP error status, and, where the library raises
\* its own error for it, an answer body that is not JSON.
C36_Retries ==
    (last.op = "send_message" /\ MsgLen(last.message) <= max_length) =>
        IF Blank(last.message) THEN ~last.ret /\ last.log = <<>>
        ELSE LET n == Len(last.met)
                 Retried(o) == \/ o \in {"connection", "status"}
                               \/ (o = "badjson" /\ last.jsonIsReq)
             IN /\ n \in 1..3
                /\ \A k \in 1..(n - 1) : Retried(last.met[k])
                /\ Retried(last.met[n]) => n = 3
                /\ last.ret <=> (last.met[n] = "ok")
                /\ Len(last.log) = 2 * n - 1
                /\ \A k \in 1..n : last.log[2 * k - 1].ev = "attempt"
                /\ \A k \in 1..(n - 1) : last.log[2 * k] = [ev |-> "sleep", s |-> k]

\* a message of the longest unsplit length was given up after three failed
\* requests, the second one an HTTP error status
C36_Witness ==
    /\ last.op = "send_message"
    /\ MsgLen(last.message) = max_length
    /\ last.met = <<"connection", "status", "connection">>
    /\ ~last.ret
    /\ Len(last.log) = 5

\* C35 (as stated): in every reachable state the stored daily_limit of every
\* recipient with a row is a positive integer.
C35_AsStated ==
    \A u \in Users : prefs[u] # None => prefs[u][1].limit \in Nat \ {0}

\* C37 (as stated): the candidates a delivery run attempts are the first
\* min(daily_limit, number of fresh candidates) in arrival order, whether an
\* attempt sends its candidate or skips it: no candidate beyond that
\* position is processed.
C37_AsStated ==
    \A s \in Slots :
        runs[s].pc \in {"item", "send", "footer"} =>
            /\ runs[s].todo = SubSeq(runs[s].new, 1,
                                     Max(Min(runs[s].limit, Len(runs[s].new)), 0))
            /\ runs[s].pc \in {"item", "send"} => runs[s].i <= Len(runs[s].todo)

\* C33 (as stated): a firing never lets an exception reach the scheduler, a
\* delivery that ends in an exception is followed by the remaining
\* categories, and after a firing or a failed resync every job, the one of
\* the failing recipient included, is still armed.
C33_AsStated ==
    /\ [][(fire' # fire \/ last'.op = "fire") => jobs' = jobs]_vars
    /\ [][(fire.pc = "wait" /\ fire' # fire) =>
             (fire'.pc = "loop" /\ fire'.i = fire.i + 1 /\ fire'.cats = fire.cats)]_vars
    /\ [][(last'.op = "update_user_schedule" /\ last' # last /\ last'.err) => jobs' = jobs]_vars

\* C33 (amended): a firing changes no job and goes on with the next category
\* after every delivery, also one that ended in an exception; a resync
\* changes no job of another recipient; a resync whose preference read fails
\* or whose stored time the trigger rejects leaves the failing recipient
\* without a job, also when one was armed before.
C33_Contained ==
    /\ [][(fire' # fire \/ last'.op = "fire") => jobs' = jobs]_vars
    /\ [][(fire.pc = "wait" /\ fire' # fire) =>
             (fire'.pc = "loop" /\ fire'.i = fire.i + 1 /\ fire'.cats = fire.cats)]_vars
    /\ [](fire.pc = "wait" /\ runs["sched"].pc = "done" => ENABLED FireAwait)
    /\ [][last'.op = "update_user_schedule" =>
             {j \in jobs' : j.user # last'.user} = {j \in jobs : j.user # last'.user}]_vars
    /\ [](\A u \in Users :
             (last.op = "update_user_schedule" /\ last.user = u
                 /\ (last.err \/ (prefs[u] # None /\ prefs[u][1].time = Some(T2500)))) =>
             ~\E j \in jobs : j.user = u)

\* after a delivery of the firing of u1 ended in an exception a later category
\* is being delivered, and a resync of u2 whose read failed has removed the
\* job of u2 while the job of u1 is still armed
C33_Witness ==
    /\ fire.pc = "wait"
    /\ fire.erred
    /\ runs["sched"].pc = "send"
    /\ last.op = "update_user_schedule"
    /\ last.user = "u2"
    /\ last.err
    /\ last.had
    /\ \E j \in jobs : j.user = "u1"
====
